---- MODULE Spec2Model ----
(***************************************************************************)
(* A model of CIME/config.py: the ConfigBase / Config singleton registry,  *)
(* the discovery and loading of override ("customize") scripts, the merge  *)
(* of their top-level names through _set_attribute, and the RST text      *)
(* printed by print_variable_rst, print_method_rst and print_rst_table.    *)
(*                                                                         *)
(* Python strings are TLA+ strings, taken apart with Len and SubSeq.  A    *)
(* Python value is the record [type |-> type(v).__name__, str |-> str(v)]. *)
(* A Python exception leaving a call is the call's result "raised".        *)
(***************************************************************************)
EXTENDS Integers, Sequences, FiniteSets, TLC

(***************************************************************************)
(* Strings                                                                 *)
(***************************************************************************)

\* The characters of the modelled paths and names, in code point order:
\* Python compares strings code point by code point.
Alphabet == "./0123456789_abcdefghijklmnopqrstuvwxyz"

CharAt(s, i) == SubSeq(s, i, i)

\* The place of each character in that order
Ord == [c \in {CharAt(Alphabet, i) : i \in 1..Len(Alphabet)} |->
           CHOOSE i \in 1..Len(Alphabet) : CharAt(Alphabet, i) = c]

\* a < b on Python str, decided from the i-th character on: the first
\* character that differs decides, and a proper prefix is the smaller.
RECURSIVE LessFrom(_, _, _)
LessFrom(a, b, i) ==
    IF i > Len(b) THEN FALSE
    ELSE IF i > Len(a) THEN TRUE
    ELSE IF CharAt(a, i) = CharAt(b, i) THEN LessFrom(a, b, i + 1)
    ELSE Ord[CharAt(a, i)] < Ord[CharAt(b, i)]

StrLess(a, b) == LessFrom(a, b, 1)

\* sorted(S) for a collection of distinct strings: the i-th is the one with
\* i - 1 smaller ones.
\* A sort into descending order, which C1 must tell from sorted
sorted_descending(S) ==
    LET rank == [a \in S |-> Cardinality({b \in S : StrLess(a, b)})]
    IN  [i \in 1..Cardinality(S) |-> CHOOSE a \in S : rank[a] = i - 1]

sorted(S) ==
    LET rank == [a \in S |-> Cardinality({b \in S : StrLess(b, a)})]
    IN  [i \in 1..Cardinality(S) |-> CHOOSE a \in S : rank[a] = i - 1]

\* str.startswith, str.endswith
startswith(s, p) == Len(p) <= Len(s) /\ SubSeq(s, 1, Len(p)) = p

endswith(s, p) == Len(p) <= Len(s) /\ SubSeq(s, Len(s) - Len(p) + 1, Len(s)) = p

\* The part of a regular expression that is a path put into it unescaped
\* matches s at position i: every character stands for itself, except "."
\* which stands for any character.
MatchesAt(pat, s, i) ==
    /\ i + Len(pat) - 1 <= Len(s)
    /\ \A k \in 1..Len(pat) :
          CharAt(pat, k) = "." \/ CharAt(pat, k) = CharAt(s, i + k - 1)

\* A literal (no metacharacter) is found in s at position i.
LiteralAt(lit, s, i) ==
    i + Len(lit) - 1 <= Len(s) /\ SubSeq(s, i, i + Len(lit) - 1) = lit

\* re.compile(f"{customize_path}/(?:tests|conftest|test_)").search(s) is not None
ignore_pattern(customize_path, s) ==
    \E i \in 1..Len(s) :
        /\ MatchesAt(customize_path, s, i)
        /\ LiteralAt("/", s, i + Len(customize_path))
        /\ \E alt \in {"tests", "conftest", "test_"} :
              LiteralAt(alt, s, i + Len(customize_path) + 1)

(***************************************************************************)
(* Python values, dictionaries and objects                                 *)
(***************************************************************************)

PyInt(s)  == [type |-> "int", str |-> s]
PyTrue    == [type |-> "bool", str |-> "True"]
PyFalse   == [type |-> "bool", str |-> "False"]
PyNone    == [type |-> "NoneType", str |-> "None"]

\* bool(v), as the 'if self.loaded:' of Config.__init__ takes it
truthy(v) ==
    ~ \/ v.type = "bool" /\ v.str = "False"
      \/ v.type = "NoneType"
      \/ v.type = "int" /\ v.str = "0"
      \/ v.type = "str" /\ v.str = ""
      \/ v.type = "tuple" /\ v.str = "()"

\* A mapping with no key, and m[k] = v
EmptyMap == [k \in {} |-> PyNone]

Put(m, k, v) == [n \in DOMAIN m \cup {k} |-> IF n = k THEN v ELSE m[n]]

\* A dict keeps its keys in insertion order; assigning to a key it holds
\* keeps the key's place.
EmptyDict == [keys |-> <<>>, at |-> EmptyMap]

DictSet(d, k, v) ==
    [keys |-> IF k \in DOMAIN d.at THEN d.keys ELSE Append(d.keys, k),
     at   |-> Put(d.at, k, v)]

\* The two classes; Config derives from ConfigBase.
Classes == {"ConfigBase", "Config"}

\* A class that has no _instance attribute of its own
Unset == "unset"

\* An object is named by its exact type: __new__ creates at most one object
\* of each.  attrs is its instance dictionary without _attribute_config,
\* which is kept apart as the dict it is.
NoObject == [live |-> FALSE, attrs |-> EmptyMap, _attribute_config |-> EmptyDict]

NewObject == [live |-> TRUE, attrs |-> EmptyMap, _attribute_config |-> EmptyDict]

(***************************************************************************)
(* The built-in defaults that Config.__init__ registers, in its order.     *)
(* A grave accent of a description is written as an apostrophe here (the   *)
(* parser does not take a grave accent inside a string); its length, which *)
(* is what the table's column width reads, is the same.                    *)
(***************************************************************************)

Defaults == <<
    [name |-> "additional_archive_components",
     value |-> [type |-> "tuple", str |-> "('drv', 'dart')"],
     desc |-> [type |-> "str", str |-> "Additional components to archive."]],
    [name |-> "verbose_run_phase",
     value |-> [type |-> "bool", str |-> "False"],
     desc |-> [type |-> "str", str |-> "If set to 'True' then after a SystemTests successful run phase the elapsed time is recorded to BASELINE_ROOT, on a failure the test is checked against the previous run and potential breaking merges are listed in the testlog."]],
    [name |-> "baseline_store_teststatus",
     value |-> [type |-> "bool", str |-> "True"],
     desc |-> [type |-> "str", str |-> "If set to 'True' and GENERATE_BASELINE is set then a teststatus.log is created in the case's baseline."]],
    [name |-> "common_sharedlibroot",
     value |-> [type |-> "bool", str |-> "True"],
     desc |-> [type |-> "str", str |-> "If set to 'True' then SHAREDLIBROOT is set for the case and SystemTests will only build the shared libs once."]],
    [name |-> "create_test_flag_mode",
     value |-> [type |-> "str", str |-> "cesm"],
     desc |-> [type |-> "str", str |-> "Sets the flag mode for the 'create_test' script. When set to 'cesm', the '-c' flag will compare baselines against a give directory."]],
    [name |-> "use_kokkos",
     value |-> [type |-> "bool", str |-> "False"],
     desc |-> [type |-> "str", str |-> "If set to 'True' and CAM_TARGET is 'preqx_kokkos', 'theta-l' or 'theta-l_kokkos' then kokkos is built with the shared libs."]],
    [name |-> "shared_clm_component",
     value |-> [type |-> "bool", str |-> "True"],
     desc |-> [type |-> "str", str |-> "If set to 'True' and then the 'clm' land component is built as a shared lib."]],
    [name |-> "ufs_alternative_config",
     value |-> [type |-> "bool", str |-> "False"],
     desc |-> [type |-> "str", str |-> "If set to 'True' and UFS_DRIVER is set to 'nems' then model config dir is set to '$CIMEROOT/../src/model/NEMS/cime/cime_config'."]],
    [name |-> "enable_smp",
     value |-> [type |-> "bool", str |-> "True"],
     desc |-> [type |-> "str", str |-> "If set to 'True' then 'SMP=' is added to model compile command."]],
    [name |-> "build_model_use_cmake",
     value |-> [type |-> "bool", str |-> "False"],
     desc |-> [type |-> "str", str |-> "If set to 'True' the model is built using using CMake otherwise Make is used."]],
    [name |-> "build_cime_component_lib",
     value |-> [type |-> "bool", str |-> "True"],
     desc |-> [type |-> "str", str |-> "If set to 'True' then 'Filepath', 'CIME_cppdefs' and 'CCSM_cppdefs' directories are copied from CASEBUILD directory to BUILDROOT in order to build CIME's internal components."]],
    [name |-> "default_short_term_archiving",
     value |-> [type |-> "bool", str |-> "True"],
     desc |-> [type |-> "str", str |-> "If set to 'True' and the case is not a test then DOUT_S is set to True and TIMER_LEVEL is set to 4."]],
    [name |-> "copy_e3sm_tools",
     value |-> [type |-> "bool", str |-> "False"],
     desc |-> [type |-> "str", str |-> "If set to 'True' then E3SM specific tools are copied into the case directory."]],
    [name |-> "copy_cesm_tools",
     value |-> [type |-> "bool", str |-> "True"],
     desc |-> [type |-> "str", str |-> "If set to 'True' then CESM specific tools are copied into the case directory."]],
    [name |-> "copy_cism_source_mods",
     value |-> [type |-> "bool", str |-> "True"],
     desc |-> [type |-> "str", str |-> "If set to 'True' then '$CASEROOT/SourceMods/src.cism/source_cism' is created and a README is written to directory."]],
    [name |-> "make_case_run_batch_script",
     value |-> [type |-> "bool", str |-> "False"],
     desc |-> [type |-> "str", str |-> "If set to 'True' and case is not a test then 'case.run.sh' is created in case directory from '$MACHDIR/template.case.run.sh'."]],
    [name |-> "case_setup_generate_namelist",
     value |-> [type |-> "bool", str |-> "False"],
     desc |-> [type |-> "str", str |-> "If set to 'True' and case is a test then namelists are created during 'case.setup'."]],
    [name |-> "create_bless_log",
     value |-> [type |-> "bool", str |-> "False"],
     desc |-> [type |-> "str", str |-> "If set to 'True' and comparing test to baselines the most recent bless is added to comments."]],
    [name |-> "allow_unsupported",
     value |-> [type |-> "bool", str |-> "True"],
     desc |-> [type |-> "str", str |-> "If set to 'True' then unsupported compsets and resolutions are allowed."]],
    [name |-> "check_machine_name_from_test_name",
     value |-> [type |-> "bool", str |-> "True"],
     desc |-> [type |-> "str", str |-> "If set to 'True' then the TestScheduler will use testlists to parse for a list of tests."]],
    [name |-> "sort_tests",
     value |-> [type |-> "bool", str |-> "False"],
     desc |-> [type |-> "str", str |-> "If set to 'True' then the TestScheduler will sort tests by runtime."]],
    [name |-> "calculate_mode_build_cost",
     value |-> [type |-> "bool", str |-> "False"],
     desc |-> [type |-> "str", str |-> "If set to 'True' then the TestScheduler will set the number of processors for building the model to min(16, (($GMAKE_J * 2) / 3) + 1) otherwise it's set to 4."]],
    [name |-> "share_exes",
     value |-> [type |-> "bool", str |-> "False"],
     desc |-> [type |-> "str", str |-> "If set to 'True' then the TestScheduler will share exes between tests."]],
    [name |-> "serialize_sharedlib_builds",
     value |-> [type |-> "bool", str |-> "True"],
     desc |-> [type |-> "str", str |-> "If set to 'True' then the TestScheduler will use 'proc_pool + 1' processors to build shared libraries otherwise a single processor is used."]],
    [name |-> "use_testreporter_template",
     value |-> [type |-> "bool", str |-> "True"],
     desc |-> [type |-> "str", str |-> "If set to 'True' then the TestScheduler will create 'testreporter' in $CIME_OUTPUT_ROOT."]],
    [name |-> "check_invalid_args",
     value |-> [type |-> "bool", str |-> "True"],
     desc |-> [type |-> "str", str |-> "If set to 'True' then script arguments are checked for being valid."]],
    [name |-> "test_mode",
     value |-> [type |-> "str", str |-> "cesm"],
     desc |-> [type |-> "str", str |-> "Sets the testing mode, this changes various configuration for CIME's unit and system tests."]],
    [name |-> "xml_component_key",
     value |-> [type |-> "str", str |-> "COMP_ROOT_DIR_{}"],
     desc |-> [type |-> "str", str |-> "The string template used as the key to query the XML system to find a components root directory e.g. the template 'COMP_ROOT_DIR_{}' and component 'LND' becomes 'COMP_ROOT_DIR_LND'."]],
    [name |-> "set_comp_root_dir_cpl",
     value |-> [type |-> "bool", str |-> "True"],
     desc |-> [type |-> "str", str |-> "If set to 'True' then COMP_ROOT_DIR_CPL is set for the case."]],
    [name |-> "use_nems_comp_root_dir",
     value |-> [type |-> "bool", str |-> "False"],
     desc |-> [type |-> "str", str |-> "If set to 'True' then COMP_ROOT_DIR_CPL is set using UFS_DRIVER if defined."]],
    [name |-> "test_custom_project_machine",
     value |-> [type |-> "str", str |-> "melvin"],
     desc |-> [type |-> "str", str |-> "Sets the machine name to use when testing a machine with no PROJECT."]],
    [name |-> "driver_default",
     value |-> [type |-> "str", str |-> "nuopc"],
     desc |-> [type |-> "str", str |-> "Sets the default driver for the model."]],
    [name |-> "driver_choices",
     value |-> [type |-> "tuple", str |-> "('nuopc',)"],
     desc |-> [type |-> "str", str |-> "Sets the available driver choices for the model."]],
    [name |-> "mct_path",
     value |-> [type |-> "str", str |-> "{srcroot}/libraries/mct"],
     desc |-> [type |-> "str", str |-> "Sets the path to the mct library."]],
    [name |-> "mpi_serial_path",
     value |-> [type |-> "str", str |-> "{srcroot}/libraries/mpi-serial"],
     desc |-> [type |-> "str", str |-> "Sets the path to the mpi-serial library."]]
>>

(***************************************************************************)
(* The file system and the override scripts                                *)
(***************************************************************************)

\* os.path.join(utils.get_src_root(), "cime_config", "customize"), for a
\* source root of /src
DEFAULT_CUSTOMIZE_PATH == "/src/cime_config/customize"

\* What executing a script's top-level statements gives: an exception, or
\* the names the script assigns at top level with their values.
Script(r, d) == [raises |-> r, defs |-> d]

\* The candidate files of the modelled file systems, each with its script.
Scripts ==
    [f \in {"d/a.py", "d/a_bad.py", "d/b.py", "d/a.cfg", "d/test_f.py",
            "d/sub/test_e.py"} |->
        CASE f = "d/a.py"     -> Script(FALSE, Put(Put(EmptyMap, "x", PyInt("1")),
                                                   "enable_smp", PyFalse))
          [] f = "d/a_bad.py" -> Script(TRUE, EmptyMap)
          [] f = "d/b.py"     -> Script(FALSE,
                                   Put(Put(Put(Put(Put(EmptyMap, "x", PyInt("2")),
                                       "y__", PyInt("1")), "_z", PyInt("2")),
                                       "__w__", PyInt("3")), "__v", PyInt("4")))
          [] f = "d/a.cfg"         -> Script(FALSE, Put(EmptyMap, "x", PyInt("8")))
          [] f = "d/test_f.py"     -> Script(FALSE, Put(EmptyMap, "x", PyInt("7")))
          [] f = "d/sub/test_e.py" -> Script(FALSE, Put(EmptyMap, "x", PyInt("5")))]

Files == DOMAIN Scripts

\* The most files a modelled file system holds
MaxFiles == 3

FileSystems == {s \in SUBSET Files : Cardinality(s) <= MaxFiles}

\* The directories and the single files load() is called with
Dirs == {"d", "d/sub"}

LoadPaths == Dirs \cup {"d/test_f.py"}

\* The attributes the module of file_path has before its source runs;
\* __cached__ is set for a source file, one whose name ends in .py
ModuleDunders(file_path) ==
    {"__builtins__", "__doc__", "__file__", "__loader__", "__name__",
     "__package__", "__spec__"}
      \cup (IF endswith(file_path, ".py") THEN {"__cached__"} ELSE {})

(***************************************************************************)
(* The state                                                               *)
(***************************************************************************)

VARIABLES
    fs,          \* the files that exist
    _instance,   \* each class's own _instance attribute: an object, or Unset
    objs,        \* the objects, by exact type
    customize,   \* the attributes of the module at sys.modules["CIME.customize"]
    lastCall,    \* the last call made and how it ended
    stdout       \* the lines the last call printed

vars == <<fs, _instance, objs, customize, lastCall, stdout>>

(***************************************************************************)
(* ConfigBase and Config                                                   *)
(***************************************************************************)

\* cls._instance as attribute lookup finds it: the class's own, else the
\* base class's.  hasattr(cls, "_instance") is that this is not Unset.
ClassInstance(inst, cls) ==
    IF inst[cls] # Unset THEN inst[cls]
    ELSE IF cls = "Config" THEN inst["ConfigBase"]
    ELSE Unset

\* isinstance(o, cls) for the object of exact type o
isinstance(o, cls) == o = cls \/ (o = "Config" /\ cls = "ConfigBase")

\* ConfigBase.__new__(cls) on the heap h = [inst, objs]
__new__(h, cls) ==
    IF ClassInstance(h.inst, cls) = Unset
    THEN [h   |-> [inst |-> [h.inst EXCEPT ![cls] = cls],
                   objs |-> [h.objs EXCEPT ![cls] = NewObject]],
          ret |-> cls]
    ELSE [h |-> h, ret |-> ClassInstance(h.inst, cls)]

\* The loaded property
loaded(obj) ==
    IF "_loaded" \in DOMAIN obj.attrs THEN obj.attrs["_loaded"] ELSE PyFalse

\* A registration that keeps the record a name already has, which C10 must
\* tell from _set_attribute
_set_attribute_keeping_record(obj, name, value, desc) ==
    [obj EXCEPT !.attrs = Put(@, name, value),
                !._attribute_config =
                    IF name \in DOMAIN @.at THEN @
                    ELSE DictSet(@, name, [desc |-> desc, default |-> value])]

_set_attribute(obj, name, value, desc) ==
    [obj EXCEPT !.attrs = Put(@, name, value),
                !._attribute_config =
                    DictSet(@, name, [desc |-> desc, default |-> value])]

ConfigBase__init__(obj) == [obj EXCEPT !._attribute_config = EmptyDict]

\* The _set_attribute calls of Config.__init__ from the i-th on
RECURSIVE RegisterDefaults(_, _)
RegisterDefaults(obj, i) ==
    IF i > Len(Defaults) THEN obj
    ELSE RegisterDefaults(
             _set_attribute(obj, Defaults[i].name, Defaults[i].value,
                            Defaults[i].desc),
             i + 1)

Config__init__(obj) ==
    LET o == ConfigBase__init__(obj)
    IN  IF truthy(loaded(o)) THEN o ELSE RegisterDefaults(o, 1)

\* The call cls(): __new__, then the __init__ of the object's type if the
\* object is an instance of cls.
Construct(h, cls) ==
    LET n == __new__(h, cls)
        o == n.ret
        init(obj) == IF o = "Config" THEN Config__init__(obj)
                     ELSE ConfigBase__init__(obj)
    IN  [h   |-> IF isinstance(o, cls)
                 THEN [n.h EXCEPT !.objs[o] = init(@)]
                 ELSE n.h,
         ret |-> o]

(***************************************************************************)
(* load                                                                    *)
(***************************************************************************)

\* customize_path.glob("**/*.py"), as strings
glob(fsys, customize_path) ==
    {f \in fsys : startswith(f, customize_path \o "/") /\ endswith(f, ".py")}

\* A discovery that globs below a file as below a directory, which C3 must
\* tell from customize_files
customize_files_glob_only(fsys, customize_path) ==
    {f \in glob(fsys, customize_path) : ~ignore_pattern(customize_path, f)}

\* customize_files of load
customize_files(fsys, customize_path) ==
    IF customize_path \in fsys
    THEN {customize_path}
    ELSE {f \in glob(fsys, customize_path) : ~ignore_pattern(customize_path, f)}

\* utils.import_from_file("raw_config", file_path): the script's exception,
\* or the module its top-level statements leave, with the attributes the
\* import machinery gave it
import_from_file(file_path) ==
    [raises  |-> Scripts[file_path].raises,
     defs    |-> Scripts[file_path].defs,
     dunders |-> ModuleDunders(file_path)]

\* dir(raw_config), a sorted list
dir(raw_config) == sorted(DOMAIN raw_config.defs \cup raw_config.dunders)

\* user_defined of _load_file
user_defined(raw_config) ==
    SelectSeq(dir(raw_config), LAMBDA n : ~endswith(n, "__"))

\* user_defined for each candidate file's module, computed once
UserDefinedOf ==
    [f \in {g \in Files : ~import_from_file(g).raises} |->
        user_defined(import_from_file(f))]

\* The loop of _load_file over names[i..]
RECURSIVE SetAll(_, _, _, _, _)
SetAll(obj, module, raw_config, names, i) ==
    IF i > Len(names) THEN [obj |-> obj, module |-> module]
    ELSE LET value == raw_config.defs[names[i]]
         IN  SetAll(_set_attribute(obj, names[i], value, PyNone),
                    Put(module, names[i], value), raw_config, names, i + 1)

_load_file(obj, customize_module, file_path) ==
    LET raw_config == import_from_file(file_path)
    IN  IF raw_config.raises
        THEN [raised |-> TRUE, obj |-> obj, module |-> customize_module]
        ELSE LET r == SetAll(obj, customize_module, raw_config,
                             UserDefinedOf[file_path], 1)
             IN  [raised |-> FALSE, obj |-> r.obj, module |-> r.module]

\* A loop that goes on to the next file after one raises, which C9 must tell
\* from LoadFiles
RECURSIVE LoadFiles_continuing(_, _, _, _)
LoadFiles_continuing(obj, customize_module, files, i) ==
    IF i > Len(files)
    THEN [raised |-> FALSE, obj |-> obj, module |-> customize_module]
    ELSE LET r == _load_file(obj, customize_module, files[i])
             rest == LoadFiles_continuing(r.obj, r.module, files, i + 1)
         IN  IF r.raised THEN [rest EXCEPT !.raised = TRUE] ELSE rest

\* The loop of load over files[i..]; it ends at the first file that raises.
RECURSIVE LoadFiles(_, _, _, _)
LoadFiles(obj, customize_module, files, i) ==
    IF i > Len(files)
    THEN [raised |-> FALSE, obj |-> obj, module |-> customize_module]
    ELSE LET r == _load_file(obj, customize_module, files[i])
         IN  IF r.raised THEN r
             ELSE LoadFiles(r.obj, r.module, files, i + 1)

\* A load that leaves the flag as it is, which C4 must tell from MarkLoaded
MarkLoaded_never(obj) == obj

\* setattr(obj, "_loaded", True)
MarkLoaded(obj) == [obj EXCEPT !.attrs = Put(@, "_loaded", PyTrue)]

\* cls.load(customize_path) on the heap h with the files fsys
load(h, fsys, cls, customize_path) ==
    LET c == Construct(h, cls)
        r == LoadFiles(c.h.objs[c.ret], EmptyMap,
                       sorted(customize_files(fsys, customize_path)), 1)
        done == IF r.raised THEN r.obj
                ELSE MarkLoaded(r.obj)
    IN  [h      |-> [c.h EXCEPT !.objs[c.ret] = done],
         module |-> r.module,
         raised |-> r.raised,
         obj    |-> c.ret]


(***************************************************************************)
(* The RST table of the variables                                          *)
(***************************************************************************)

PyStr(s) == [type |-> "str", str |-> s]

\* c * n
RECURSIVE Repeat(_, _)
Repeat(c, n) ==
    IF n <= 0 THEN ""
    ELSE LET half == Repeat(c, n \div 2)
         IN  half \o half \o (IF n % 2 = 1 THEN c ELSE "")

\* " ".join(cells[i..])
RECURSIVE JoinFrom(_, _)
JoinFrom(cells, i) ==
    IF i > Len(cells) THEN ""
    ELSE IF i = Len(cells) THEN cells[i]
    ELSE cells[i] \o " " \o JoinFrom(cells, i + 1)

MaxOf(S) == CHOOSE m \in S : \A k \in S : k <= m

\* The lines print_rst_header(header, anchor) prints
print_rst_header(header, anchor) ==
    <<".. _" \o anchor, "", Repeat("\"", Len(header)), header,
      Repeat("\"", Len(header))>>

\* print_rst_table(headers, *rows): the lines it prints, or the exception
\* it raises.  rows[0] of no rows is an IndexError; len() of a cell that is
\* None is a TypeError.
print_rst_table(headers, rows) ==
    IF Len(rows) = 0
    THEN [raised |-> TRUE, error |-> "IndexError", lines |-> <<>>]
    ELSE
    LET ncols == IF Len(headers) < Len(rows[1]) THEN Len(headers)
                 ELSE Len(rows[1])
        cells(x) == {headers[x]} \cup {rows[y][x] : y \in 1..Len(rows)}
        column_widths == [x \in 1..ncols |->
                             MaxOf({Len(c.str) : c \in cells(x)})]
        pad(w, y) == y.str \o Repeat(" ", w - Len(y.str))
        line(row) == JoinFrom([x \in 1..ncols |-> pad(column_widths[x], row[x])], 1)
        divider == JoinFrom([x \in 1..ncols |-> Repeat("=", column_widths[x])], 1)
    IN  IF \E x \in 1..ncols : \E c \in cells(x) : c.type # "str"
        THEN [raised |-> TRUE, error |-> "TypeError", lines |-> <<>>]
        ELSE [raised |-> FALSE, error |-> "",
              lines  |-> <<divider, line(headers), divider>>
                         \o [y \in 1..Len(rows) |-> line(rows[y])]
                         \o <<divider>>]

\* The rows of print_variable_rst, one for each key of _attribute_config
rows(obj) ==
    LET d == obj._attribute_config
    IN  [i \in 1..Len(d.keys) |->
            <<PyStr(d.keys[i]), PyStr(d.at[d.keys[i]].default.str),
              PyStr(d.at[d.keys[i]].default.type), d.at[d.keys[i]].desc>>]

\* headers of print_variable_rst
headers == <<PyStr("Variable"), PyStr("Default"), PyStr("Type"),
             PyStr("Description")>>

\* The rows of an object that has the built-in defaults and nothing else
\* registered, and print_rst_table of them, computed once
DefaultRows == rows(Config__init__(NewObject))

DefaultTable == print_rst_table(headers, DefaultRows)

\* print_rst_table(headers, *rows) of print_variable_rst
VariableTable(rs) ==
    IF rs = DefaultRows THEN DefaultTable ELSE print_rst_table(headers, rs)

\* self.print_variable_rst() for the object of exact type class
print_variable_rst(obj, class) ==
    LET t == VariableTable(rows(obj))
    IN  [raised |-> t.raised, error |-> t.error,
         lines  |-> print_rst_header("Variables", class \o " Variables:")
                    \o t.lines]

(***************************************************************************)
(* The RST list of the methods                                             *)
(***************************************************************************)

\* A docstring, as the lines doc.split("\n") gives
PyDoc(lines) == [type |-> "str", lines |-> lines]

Method(name, sig, doc) == [name |-> name, sig |-> sig, doc |-> doc]

\* inspect.getmembers(self, inspect.ismethod) for an object of exact type
\* class, sorted by name, each with str(inspect.signature(m)) and
\* inspect.getdoc(m).  The attributes the scripts set are no methods.
methods(class) ==
    <<Method("__init__", "()",
             PyDoc(<<"Initialize self.  See help(type(self)) for accurate signature.">>)),
      Method("_load_file", "(file_path, customize_module)", PyNone),
      Method("_set_attribute", "(name, value, desc=None)", PyNone),
      Method("instance", "()",
             PyDoc(<<"Access singleton.", "",
                     "Explicit way to access singleton, same as calling constructor.">>)),
      Method("load", "(customize_path)", PyNone)>>
    \o (IF class = "Config" THEN <<Method("load_defaults", "()", PyNone)>>
        ELSE <<>>)
    \o <<Method("print_method_rst", "()", PyNone),
          Method("print_rst_table", "()", PyNone),
          Method("print_variable_rst", "()", PyNone)>>

ignore == {"__init__", "loaded", "load", "instance", "_load_file",
           "_set_attribute", "print_rst_table", "print_method_rst",
           "print_variable_rst"}

\* child_methods of print_method_rst; the class of a bound method is never
\* Config, so only the names of ignore are left out
child_methods(class) ==
    SelectSeq(methods(class), LAMBDA x : x.name \notin ignore)

\* The lines the loop of print_method_rst prints for child_methods[i..]
RECURSIVE MethodLines(_, _)
MethodLines(ms, i) ==
    IF i > Len(ms) THEN <<>>
    ELSE (IF ms[i].doc = PyNone THEN <<>>
          ELSE <<".. code-block::", "",
                 "  def " \o ms[i].name \o ms[i].sig \o ":", "      \"\"\"">>
               \o [k \in 1..Len(ms[i].doc.lines) |->
                      "      " \o ms[i].doc.lines[k]]
               \o <<"      \"\"\"">>)
         \o MethodLines(ms, i + 1)

\* self.print_method_rst() for the object of exact type class
print_method_rst(obj, class) ==
    [raised |-> FALSE, error |-> "",
     lines  |-> print_rst_header("Methods", class \o " Methods:")
                \o MethodLines(child_methods(class), 1)]

\* self.print_rst_table() for the object of exact type class: the variables,
\* an empty line, the methods; what print_variable_rst raises ends it
ConfigBase_print_rst_table(obj, class) ==
    LET v == print_variable_rst(obj, class)
        m == print_method_rst(obj, class)
    IN  IF v.raised THEN v
        ELSE [raised |-> m.raised, error |-> m.error,
              lines  |-> v.lines \o <<"">> \o m.lines]

(***************************************************************************)
(* The calls                                                               *)
(***************************************************************************)

\* obj is the object the call works on, which it returns if it returns
Call(op, cls, path, result, error, obj) ==
    [op |-> op, cls |-> cls, path |-> path, result |-> result,
     error |-> error, obj |-> obj]

Heap == [inst |-> _instance, objs |-> objs]

Init ==
    /\ fs \in FileSystems
    /\ _instance = [c \in Classes |-> Unset]
    /\ objs = [c \in Classes |-> NoObject]
    /\ customize = EmptyMap
    /\ lastCall = Call("none", "", "", "returned", "", "")
    /\ stdout = <<>>

\* What a call cls() does to the state, c being what Construct gives
Constructed(op, cls, c) ==
    /\ _instance' = c.h.inst
    /\ objs' = c.h.objs
    /\ lastCall' = Call(op, cls, "", "returned", "", c.ret)
    /\ stdout' = <<>>
    /\ UNCHANGED <<fs, customize>>

\* cls.instance(), which is cls()
Instance(cls) == Constructed("instance", cls, Construct(Heap, cls))

\* cls()
Constructor(cls) == Constructed("constructor", cls, Construct(Heap, cls))

\* What a call of load does to the state, r being what load gives
Loaded(op, cls, path, r) ==
    /\ _instance' = r.h.inst
    /\ objs' = r.h.objs
    /\ customize' = r.module
    /\ lastCall' = Call(op, cls, path,
                        IF r.raised THEN "raised" ELSE "returned",
                        IF r.raised THEN "ScriptError" ELSE "", r.obj)
    /\ stdout' = <<>>
    /\ UNCHANGED fs

\* cls.load(path)
Load(cls, path) == Loaded("load", cls, path, load(Heap, fs, cls, path))

\* Config.load_defaults(), which is Config.load(DEFAULT_CUSTOMIZE_PATH)
LoadDefaults ==
    Loaded("load_defaults", "Config", DEFAULT_CUSTOMIZE_PATH,
           load(Heap, fs, "Config", DEFAULT_CUSTOMIZE_PATH))

\* What a printing method of o does to the state, r being what it gives
Printed(op, o, r) ==
    /\ lastCall' = Call(op, o, "",
                        IF r.raised THEN "raised" ELSE "returned", r.error, o)
    /\ stdout' = r.lines
    /\ UNCHANGED <<fs, _instance, objs, customize>>

\* o.print_variable_rst() on an object got from an earlier call
PrintVariableRst(o) ==
    /\ objs[o].live
    /\ Printed("print_variable_rst", o, print_variable_rst(objs[o], o))

\* o.print_method_rst()
PrintMethodRst(o) ==
    /\ objs[o].live
    /\ Printed("print_method_rst", o, print_method_rst(objs[o], o))

\* o.print_rst_table()
PrintRstTable(o) ==
    /\ objs[o].live
    /\ Printed("print_rst_table", o, ConfigBase_print_rst_table(objs[o], o))

Next ==
    \/ \E cls \in Classes : Instance(cls)
    \/ \E cls \in Classes : Constructor(cls)
    \/ \E cls \in Classes, path \in LoadPaths : Load(cls, path)
    \/ LoadDefaults
    \/ \E o \in Classes : PrintVariableRst(o)
    \/ \E o \in Classes : PrintMethodRst(o)
    \/ \E o \in Classes : PrintRstTable(o)

Spec == Init /\ [][Next]_vars

(***************************************************************************)
(* What the properties speak of                                            *)
(***************************************************************************)

Loads == {"load", "load_defaults"}

Constructions == {"instance", "constructor"}

\* The object the last call worked on
LastObj == objs[lastCall.obj]

IsLoaded(obj) == truthy(loaded(obj))

\* The attribute values of an instance dictionary, the flag aside
Values(attrs) == [n \in DOMAIN attrs \ {"_loaded"} |-> attrs[n]]

\* The names a file's script hands to _set_attribute
HarvestedOf ==
    [f \in Files |->
        IF Scripts[f].raises THEN {}
        ELSE {UserDefinedOf[f][i] : i \in DOMAIN UserDefinedOf[f]}]

Harvested(f) == HarvestedOf[f]

\* Among files, the last in path order that sets n
LastWriter(files, n) ==
    CHOOSE f \in files :
        /\ n \in Harvested(f)
        /\ \A g \in files \ {f} : n \in Harvested(g) => StrLess(g, f)

\* The attributes after the files' names are merged over before: a name
\* that files set has its last writer's value, any other name keeps its own.
Merged(before, files) ==
    [n \in DOMAIN before \cup UNION {Harvested(f) : f \in files} |->
        IF \E f \in files : n \in Harvested(f)
        THEN Scripts[LastWriter(files, n)].defs[n]
        ELSE before[n]]

\* The member of a set of one member.  Below, a value that is used many
\* times is first made the member of such a set, so that it is computed once.
Only(S) == CHOOSE x \in S : TRUE

\* The object load's own cls() call leaves, before the loop over the files
BeforePass(cls) ==
    Only({c.h.objs[c.ret] : c \in {Construct(Heap, cls)}})

(***************************************************************************)
(* C1                                                                      *)
(***************************************************************************)

\* The attribute values once the files discovered under path are merged
MergedAfterLoad(cls, path) ==
    Only({Merged(b.attrs, files) : b \in {BeforePass(cls)},
                                  files \in {customize_files(fs, path)}})

\* C1: after a load that returns, every attribute has the value that merging
\* the discovered files in ascending path order over the state before the
\* pass gives: a name set by several files has the value of the last of them
\* in path order, and a name no file sets keeps its value.
C1_MergeInPathOrder ==
    [][(lastCall'.op \in Loads /\ lastCall'.result = "returned") =>
          \A m \in {MergedAfterLoad(lastCall'.cls, lastCall'.path)} :
              Values(objs'[lastCall'.obj].attrs) = Values(m)]_vars

\* Two files that both set x were loaded, and x is the later file's 2.
C1_Witness ==
    /\ lastCall.op = "load" /\ lastCall.result = "returned"
    /\ customize_files(fs, lastCall.path) = {"d/a.py", "d/b.py"}
    /\ LastObj.attrs["x"] = PyInt("2")
    /\ LastObj.attrs["enable_smp"] = PyFalse

(***************************************************************************)
(* C9                                                                      *)
(***************************************************************************)

\* The discovered files whose script raises, and the first of them in
\* path order
RaisingFiles(path) == {f \in customize_files(fs, path) : Scripts[f].raises}

FirstRaising(path) ==
    CHOOSE f \in RaisingFiles(path) :
        \A g \in RaisingFiles(path) \ {f} : StrLess(f, g)

\* The attributes once the files before the first raising one are merged
MergedBeforeRaise(cls, path) ==
    Only({Merged(b.attrs, {f \in files : StrLess(f, k)}) :
             b \in {BeforePass(cls)},
             files \in {customize_files(fs, path)},
             k \in {FirstRaising(path)}})

\* C9: when the k-th file in sorted order raises, load raises, the files
\* before the k-th are merged and stay merged, no later file is applied,
\* and the loaded flag is what it was.
C9_RaiseStopsThePass ==
    [][(lastCall'.op \in Loads /\ RaisingFiles(lastCall'.path) # {}) =>
          /\ lastCall'.result = "raised"
          /\ \A m \in {MergedBeforeRaise(lastCall'.cls, lastCall'.path)} :
                Values(objs'[lastCall'.obj].attrs) = Values(m)
          /\ \A b \in {BeforePass(lastCall'.cls)} :
                loaded(objs'[lastCall'.obj]) = loaded(b)]_vars

\* a.py, a_bad.py and b.py were loaded: a.py's x is there, b.py's _z is not.
C9_Witness ==
    /\ lastCall.op = "load" /\ lastCall.result = "raised"
    /\ sorted(customize_files(fs, lastCall.path))
         = <<"d/a.py", "d/a_bad.py", "d/b.py">>
    /\ LastObj.attrs["x"] = PyInt("1")
    /\ "_z" \notin DOMAIN LastObj.attrs
    /\ ~IsLoaded(LastObj)

(***************************************************************************)
(* C4                                                                      *)
(***************************************************************************)

\* C4: an object's loaded flag becomes true only by a load that returns it,
\* so it is false before the first load; it is true right after every load
\* that returns, whatever the files; and once true it stays true.
C4_LoadedFlag ==
    [][/\ \A o \in Classes :
            (~IsLoaded(objs[o]) /\ IsLoaded(objs'[o])) =>
                /\ lastCall'.op \in Loads
                /\ lastCall'.result = "returned"
                /\ lastCall'.obj = o
       /\ (lastCall'.op \in Loads /\ lastCall'.result = "returned") =>
              IsLoaded(objs'[lastCall'.obj])
       /\ \A o \in Classes : IsLoaded(objs[o]) => IsLoaded(objs'[o])]_vars

\* A load that found no file returned, and the flag is true.
C4_Witness ==
    /\ lastCall.op = "load" /\ lastCall.result = "returned"
    /\ customize_files(fs, lastCall.path) = {}
    /\ IsLoaded(LastObj)

(***************************************************************************)
(* C10                                                                     *)
(***************************************************************************)

\* C10: in every state, each record of _attribute_config has as its default
\* the current value of the attribute of that name.
C10_DefaultIsCurrentValue ==
    \A o \in Classes :
        \A n \in DOMAIN objs[o]._attribute_config.at :
            /\ n \in DOMAIN objs[o].attrs
            /\ objs[o]._attribute_config.at[n].default = objs[o].attrs[n]

\* enable_smp, a built-in default of True, was overridden: its recorded
\* default is the override's False.
C10_Witness ==
    \E o \in Classes :
        /\ "enable_smp" \in DOMAIN objs[o]._attribute_config.at
        /\ objs[o]._attribute_config.at["enable_smp"].default = PyFalse
        /\ objs[o]._attribute_config.at["enable_smp"].desc = PyNone
        /\ objs[o].attrs["enable_smp"] = PyFalse

(***************************************************************************)
(* C2                                                                      *)
(***************************************************************************)

\* sub occurs in s
Contains(s, sub) == \E i \in 1..Len(s) : LiteralAt(sub, s, i)

\* The part of the path f below the directory d, and f's file name
Below(d, f) == SubSeq(f, Len(d) + 2, Len(f))

FileName(f) ==
    LET slashes == {i \in 1..Len(f) : CharAt(f, i) = "/"}
    IN  IF slashes = {} THEN f
        ELSE SubSeq(f, MaxOf(slashes) + 1, Len(f))

\* f, a file below d, has one of the three shapes of a test file: a
\* directory named tests on its way, the name conftest, or a name that
\* starts with test_
TestShaped(d, f) ==
    \/ Contains("/" \o Below(d, f), "/tests/")
    \/ FileName(f) = "conftest.py"
    \/ startswith(FileName(f), "test_")

\* C2: when load is given a directory, the files discovered are the .py
\* files below it that have none of the three shapes, at any depth.
C2_TestsExcludedAtAnyDepth ==
    (lastCall.op \in Loads /\ lastCall.path \notin fs) =>
        customize_files(fs, lastCall.path)
          = {f \in glob(fs, lastCall.path) : ~TestShaped(lastCall.path, f)}

(***************************************************************************)
(* C3                                                                      *)
(***************************************************************************)

\* The files below the directory d
UnderDir(d) == {f \in fs : startswith(f, d \o "/")}

\* How cls.load(path) would end from this state: raising or not, and the
\* attributes of the object it works on
Outcome(cls, path) ==
    [raised |-> load(Heap, fs, cls, path).raised,
     attrs  |-> load(Heap, fs, cls, path).h.objs[
                    load(Heap, fs, cls, path).obj].attrs]

\* C3 as claimed: for any file F, a load of a directory that holds exactly
\* F ends as a load of F alone from the same state would, with the same
\* attributes.
C3_FileAsDirectory ==
    [][\A f \in Files :
          (/\ lastCall'.op = "load"
           /\ lastCall'.path \in Dirs
           /\ UnderDir(lastCall'.path) = {f}) =>
              [raised |-> lastCall'.result = "raised",
               attrs  |-> objs'[lastCall'.obj].attrs]
                = Outcome(lastCall'.cls, f)]_vars

\* C3, amended: the same for a file F whose name ends in .py and in whose
\* path the ignore pattern of the directory finds nothing.
C3_PyFileAsDirectory ==
    [][\A f \in Files :
          (/\ lastCall'.op = "load"
           /\ lastCall'.path \in Dirs
           /\ UnderDir(lastCall'.path) = {f}
           /\ endswith(f, ".py")
           /\ ~ignore_pattern(lastCall'.path, f)) =>
              [raised |-> lastCall'.result = "raised",
               attrs  |-> objs'[lastCall'.obj].attrs]
                = Outcome(lastCall'.cls, f)]_vars

\* The directory d, holding only a.py, was loaded, and a.py's x is set.
C3_Witness ==
    /\ lastCall.op = "load" /\ lastCall.result = "returned"
    /\ lastCall.path = "d"
    /\ UnderDir("d") = {"d/a.py"}
    /\ LastObj.attrs["x"] = PyInt("1")
    /\ Outcome("Config", "d/a.py").attrs["x"] = PyInt("1")

(***************************************************************************)
(* C5                                                                      *)
(***************************************************************************)

\* C5: there is one object, whichever class the calls are made on, and it
\* has the built-in defaults.
C5_OneObjectWithDefaults ==
    /\ \A o, p \in Classes : (objs[o].live /\ objs[p].live) => o = p
    /\ (lastCall.op \in Loads \cup Constructions) =>
          \A i \in 1..Len(Defaults) :
              Defaults[i].name \in DOMAIN LastObj.attrs

(***************************************************************************)
(* C6                                                                      *)
(***************************************************************************)

\* C6: instance() or the constructor, called when the object exists, leaves
\* its attribute values and its _attribute_config as they are.
C6_ConstructionChangesNothing ==
    [][(lastCall'.op \in Constructions /\ objs[lastCall'.obj].live) =>
          objs'[lastCall'.obj] = objs[lastCall'.obj]]_vars

(***************************************************************************)
(* C7                                                                      *)
(***************************************************************************)

\* The lines before the first row: five of the header, then the divider,
\* the column names and the divider
RowsFrom == Len(print_rst_header("Variables", "")) + 4

\* C7: print_variable_rst on the Config object returns, and between the
\* dividers it has printed one row for each attribute ever registered,
\* each once, in the order of registration.
C7_OneRowPerAttribute ==
    (lastCall.op = "print_variable_rst" /\ lastCall.obj = "Config") =>
        /\ lastCall.result = "returned"
        /\ Len(stdout) = RowsFrom + Cardinality(DOMAIN Values(LastObj.attrs))
        /\ \A n \in DOMAIN Values(LastObj.attrs) :
              Cardinality({i \in RowsFrom..(Len(stdout) - 1) :
                              startswith(stdout[i], n \o " ")}) = 1
        /\ \A i \in 1..Len(LastObj._attribute_config.keys) :
              startswith(stdout[RowsFrom + i - 1],
                         LastObj._attribute_config.keys[i] \o " ")

(***************************************************************************)
(* C8                                                                      *)
(***************************************************************************)

\* A name that begins and ends with two underscores
IsDunder(n) == Len(n) >= 4 /\ startswith(n, "__") /\ endswith(n, "__")

\* C8: after a load, of the names at the top level of each module loaded,
\* those that are not dunder names, and only those, are attributes.
C8_NonDunderNamesHarvested ==
    (lastCall.op \in Loads /\ lastCall.result = "returned") =>
        \A f \in customize_files(fs, lastCall.path) :
            \A n \in DOMAIN Scripts[f].defs \cup ModuleDunders(f) :
                (n \in DOMAIN LastObj.attrs) <=> ~IsDunder(n)
====
